---- MODULE Spec2Model ----
(***************************************************************************)
(* Model of the two-stage text pipeline of wikipedia-utils:                *)
(*   extract_paragraphs_from_page_htmls.py  (normalize_text, the section   *)
(*   walker extract_paragraphs_from_html)                                  *)
(*   make_passages_from_paragraphs.py       (split_section, the passage    *)
(*   grouper generate_passages)                                            *)
(*                                                                         *)
(* A text is a sequence of code points.  A code point is written as a      *)
(* one-character string when it is ASCII ("a", " ", "\n") and as "U+XXXX"  *)
(* otherwise.  Python's None, where a text may stand, is the one-element   *)
(* sequence None, which is no text of code points; a local that holds no   *)
(* record yet is Unset.                                                    *)
(***************************************************************************)
EXTENDS Integers, Sequences, FiniteSets, TLC

\* ------------------------------------------------------------------------
\* Bounds of the model
\* ------------------------------------------------------------------------
MaxTextLen == 4
MaxLongLen == 7
MaxBudget == 4
MaxNormLen == 5
MaxRows == 3
MaxSections == 2
MaxTags == 3
MaxLines == 2
MaxItems == 3

\* ------------------------------------------------------------------------
\* Code points
\* ------------------------------------------------------------------------
NL == "\n"
SP == " "
NUL == "U+0000"
IDSP == "U+3000"
ACUTE == "U+0301"
AACUTE == "U+00E1"
None == <<"None">>

Unset == [unset |-> TRUE]

\* str.isspace() on the code points of the model
IsSpace(c) == c \in {SP, NL, "\t", IDSP}

\* str.isprintable() on the code points of the model: the ASCII space is
\* printable, every other whitespace and every control character is not
IsPrintable(c) == c \notin {NL, "\t", IDSP, NUL}

\* ------------------------------------------------------------------------
\* Generic helpers on sequences
\* ------------------------------------------------------------------------
SeqsUpTo(S, n) == UNION {[1..k -> S] : k \in 0..n}

SetMin(S) == CHOOSE x \in S : \A y \in S : x <= y

SetMax(S) == CHOOSE x \in S : \A y \in S : y <= x

RECURSIVE Flatten(_)
Flatten(ss) == IF ss = <<>> THEN <<>> ELSE Head(ss) \o Flatten(Tail(ss))

\* the elements of a finite set of integers in increasing order
RECURSIVE SortedSeq(_)
SortedSeq(S) == IF S = {} THEN <<>> ELSE <<SetMin(S)>> \o SortedSeq(S \ {SetMin(S)})

\* str.strip(): drop the leading and the trailing whitespace
strip(s) ==
    LET keep == {i \in 1..Len(s) : ~IsSpace(s[i])}
    IN  IF keep = {} THEN <<>> ELSE SubSeq(s, SetMin(keep), SetMax(keep))

\* ------------------------------------------------------------------------
\* extract_paragraphs_from_page_htmls.py : normalize_text
\* ------------------------------------------------------------------------

\* the compatibility decomposition of one code point: U+3000 IDEOGRAPHIC
\* SPACE becomes the ASCII space, U+00E1 is a followed by U+0301
nfkc_decompose(c) ==
    IF c = IDSP THEN <<SP>>
    ELSE IF c = AACUTE THEN <<"a", ACUTE>>
    ELSE <<c>>

\* the canonical composition: a followed by U+0301 becomes U+00E1
RECURSIVE nfkc_compose(_)
nfkc_compose(s) ==
    IF s = <<>> THEN <<>>
    ELSE IF Len(s) >= 2 /\ s[1] = "a" /\ s[2] = ACUTE
         THEN <<AACUTE>> \o nfkc_compose(SubSeq(s, 3, Len(s)))
         ELSE <<s[1]>> \o nfkc_compose(Tail(s))

\* line 32: unicodedata.normalize("NFKC", text)
nfkc(s) == nfkc_compose(Flatten([k \in 1..Len(s) |-> nfkc_decompose(s[k])]))

\* str.split(): the maximal runs of characters that are not whitespace
RECURSIVE py_split(_)
py_split(s) ==
    LET keep == {i \in 1..Len(s) : ~IsSpace(s[i])}
    IN  IF keep = {} THEN <<>>
        ELSE LET first == SetMin(keep)
                 after == {i \in first..Len(s) : IsSpace(s[i])}
                 last == IF after = {} THEN Len(s) ELSE SetMin(after) - 1
             IN  <<SubSeq(s, first, last)>> \o py_split(SubSeq(s, last + 1, Len(s)))

\* line 33: " ".join(words)
join_space(words) ==
    Flatten([k \in 1..Len(words) |-> IF k = 1 THEN words[k] ELSE <<SP>> \o words[k]])

\* lines 31-36
normalize_text(s) ==
    strip(SelectSeq(join_space(py_split(nfkc(s))), IsPrintable))

\* ------------------------------------------------------------------------
\* extract_paragraphs_from_page_htmls.py : extract_paragraphs_from_html
\* ------------------------------------------------------------------------
DEFAULT_TAGS_TO_EXTRACT == {"p", "h3", "h4", "h5", "h6", "dt", "dd", "li", "th", "tr"}

\* variant of the ancestor test that skips nothing
skip_tag_never(tag) == FALSE

\* lines 61-65: the tag has an ancestor that already yields its text
skip_tag(tag) == tag.nested

\* variant of the h2 reset that forgets the levels below h3
reset_below_h2_h3_only(ctx, h2text) ==
    [ctx EXCEPT !.h2 = h2text, !.h3 = None]

\* lines 48-52: a section with an h2 sets h2 and resets the levels below
reset_below_h2(ctx, h2text) ==
    [h2 |-> h2text, h3 |-> None, h4 |-> None, dt |-> None]

\* variant of the h3 reset that keeps dt
reset_below_h3_keep_dt(ctx, h3text) == [ctx EXCEPT !.h3 = h3text, !.h4 = None]

\* lines 73-77
reset_below_h3(ctx, h3text) == [ctx EXCEPT !.h3 = h3text, !.h4 = None, !.dt = None]

\* lines 79-82
reset_below_h4(ctx, h4text) == [ctx EXCEPT !.h4 = h4text, !.dt = None]

\* variant of the dt step that forgets the text
set_dt_ignored(ctx, dttext) == ctx

\* lines 84-86
set_dt(ctx, dttext) == [ctx EXCEPT !.dt = dttext]

\* lines 88-89: the record yielded for a tag
paragraph_record(ctx, tag) ==
    [sections |-> <<ctx.h2, ctx.h3, ctx.h4, ctx.dt>>,
     text |-> normalize_text(tag.text),
     name |-> tag.name]

\* ------------------------------------------------------------------------
\* make_passages_from_paragraphs.py : split_section
\* ------------------------------------------------------------------------

\* re.split(r'\n+', text): the pieces between the maximal runs of newlines,
\* with an empty piece before a leading run and after a trailing run
re_split_newlines(text) ==
    LET n == Len(text)
        starts == SortedSeq({i \in 1..n : text[i] = NL /\ (i = 1 \/ text[i-1] # NL)})
        ends == SortedSeq({i \in 1..n : text[i] = NL /\ (i = n \/ text[i+1] # NL)})
        r == Len(starts)
    IN  [k \in 1..(r+1) |->
            SubSeq(text, IF k = 1 THEN 1 ELSE ends[k-1] + 1,
                         IF k = r + 1 THEN n ELSE starts[k] - 1)]

\* The sentence splitter is an external collaborator (sentence_splitters.py
\* is not part of the sources).  By its contract it maps a line to an
\* ordered sequence of sentences that concatenate back to the line.  A
\* splitter is given by a set of offsets: it ends a sentence after p
\* characters of the line for every offset p inside the line.
splitter_call(splitter, line) ==
    LET n == Len(line)
        cut == SortedSeq({p \in splitter : 0 < p /\ p < n})
        m == Len(cut)
    IN  IF n = 0 THEN <<>>
        ELSE [k \in 1..(m+1) |->
                SubSeq(line, IF k = 1 THEN 1 ELSE cut[k-1] + 1,
                             IF k = m + 1 THEN n ELSE cut[k])]

\* Python round(x / y) for positive integers: round half to even
py_round_div(x, y) ==
    LET q == x \div y
        r == x % y
    IN  IF 2 * r < y THEN q
        ELSE IF 2 * r > y THEN q + 1
        ELSE IF q % 2 = 0 THEN q ELSE q + 1

\* variant of the loop that tests the average of one chunk more
RECURSIVE grow_nchunk_early(_, _, _)
grow_nchunk_early(total_nchar, max_nchar, nchunk) ==
    IF total_nchar > max_nchar * (nchunk + 1)
    THEN grow_nchunk_early(total_nchar, max_nchar, nchunk + 1)
    ELSE nchunk

\* lines 32-41: the planned chunk count; the float total_nchar / nchunk is
\* above the integer max_nchar exactly when the exact quotient is (rounding
\* to the nearest double never crosses a double), so the test is
\* total_nchar > max_nchar * nchunk
RECURSIVE grow_nchunk(_, _, _)
grow_nchunk(total_nchar, max_nchar, nchunk) ==
    IF total_nchar > max_nchar * nchunk
    THEN grow_nchunk(total_nchar, max_nchar, nchunk + 1)
    ELSE nchunk

estimate_nchunk(total_nchar, max_nchar) ==
    LET r == py_round_div(total_nchar, max_nchar)
    IN  IF r > 1 THEN r ELSE 1

plan_nchunk(total_nchar, max_nchar) ==
    grow_nchunk(total_nchar, max_nchar, estimate_nchunk(total_nchar, max_nchar))

\* lines 47-51: the sentences of the text, line by line; after each line the
\* last sentence collected so far gets a newline appended
RECURSIVE collect_sentences(_, _, _)
collect_sentences(lines, splitter, sentences) ==
    IF lines = <<>> THEN sentences
    ELSE LET s1 == sentences \o splitter_call(splitter, Head(lines))
             s2 == IF Len(s1) > 0
                   THEN [s1 EXCEPT ![Len(s1)] = s1[Len(s1)] \o <<NL>>]
                   ELSE s1
         IN  collect_sentences(Tail(lines), splitter, s2)

split_sentences(text, splitter) ==
    collect_sentences(re_split_newlines(text), splitter, <<>>)

\* variants of the split test: against the target of the next chunk number,
\* and with a strict comparison
exceeds_target_next(nchar, l, total_nchar, nchunk, chunk_id) ==
    (nchar + (l \div 2)) * nchunk >= total_nchar * (chunk_id + 1)

exceeds_target_strict(nchar, l, total_nchar, nchunk, chunk_id) ==
    (nchar + (l \div 2)) * nchunk > total_nchar * chunk_id

\* The floats of lines 39 and 59.  nchar_chunk = total_nchar / nchunk is the
\* double nearest to the quotient, m * 2^(-s) with 2^52 <= m < 2^53, and
\* nchar_chunk * chunk_id is the double nearest to that product.  Only the
\* sign and the size of the rounding error of the quotient matter, and they
\* follow from the remainder of the division that gives m; all numbers stay
\* small (total_nchar and nchunk below 2^15).

\* floor(log2(a / b)) for positive integers
RECURSIVE float_exponent_up(_, _)
float_exponent_up(a, b) == IF 2 * b <= a THEN 1 + float_exponent_up(a, 2 * b) ELSE 0

RECURSIVE float_exponent_down(_, _)
float_exponent_down(a, b) == IF a < b THEN float_exponent_down(2 * a, b) - 1 ELSE 0

float_exponent(a, b) ==
    IF a >= b THEN float_exponent_up(a, b) ELSE float_exponent_down(a, b)

\* 2^s modulo n, by steps of 13 bits
RECURSIVE power_of_two_mod(_, _)
power_of_two_mod(s, n) ==
    IF s <= 13 THEN (2^s) % n
    ELSE (((2^13) % n) * power_of_two_mod(s - 13, n)) % n

\* lines 33, 39: r such that nchar_chunk - total_nchar/nchunk = r / (nchunk * 2^s),
\* s = 52 - float_exponent(total_nchar, nchunk).  The remainder of
\* total_nchar * 2^s by nchunk decides the rounding; it is never half of
\* nchunk for nchunk below 2^15 (the quotient would be an odd integer and a
\* multiple of 2), so no tie is broken
nchar_chunk_error(total_nchar, nchunk) ==
    LET s == 52 - float_exponent(total_nchar, nchunk)
        rem == ((total_nchar % nchunk) * power_of_two_mod(s, nchunk)) % nchunk
    IN  IF 2 * rem > nchunk THEN nchunk - rem ELSE 0 - rem

\* the float nchar_chunk * chunk_id is above the integer a.  When the exact
\* product total_nchar * chunk_id / nchunk differs from a, the float is on
\* the same side; when it equals a, the float is above a exactly when the
\* error of the quotient, times chunk_id, is more than half the distance of
\* a to the next double, 2^(float_exponent(a, 1) - 53)
float_product_above(a, total_nchar, nchunk, chunk_id) ==
    IF total_nchar * chunk_id > a * nchunk THEN TRUE
    ELSE IF total_nchar * chunk_id < a * nchunk \/ total_nchar = 0 THEN FALSE
    ELSE LET err == nchar_chunk_error(total_nchar, nchunk)
             ej == float_exponent(total_nchar, nchunk)
             ek == float_exponent(a, 1)
         IN  err > 0 /\ 2 * err * chunk_id > nchunk * 2^(ek - ej)

\* line 59: nchar + l//2 >= nchar_chunk*chunk_id, with the floats of the code
exceeds_target(nchar, l, total_nchar, nchunk, chunk_id) ==
    ~float_product_above(nchar + (l \div 2), total_nchar, nchunk, chunk_id)

\* variants of the packing step: one that closes a chunk also when it is the
\* last planned one, and one that drops the sentence that closes a chunk
pack_step_split_last(st, sentence, total_nchar, nchunk) ==
    LET l == Len(sentence)
        close == (st.nchar + (l \div 2)) * nchunk >= total_nchar * st.chunk_id
    IN  [nchar |-> st.nchar + l,
         chunk_id |-> IF close THEN st.chunk_id + 1 ELSE st.chunk_id,
         chunks |-> IF close THEN Append(st.chunks, strip(st.chunk_text)) ELSE st.chunks,
         chunk_text |-> (IF close THEN <<>> ELSE st.chunk_text) \o sentence]

pack_step_drop(st, sentence, total_nchar, nchunk) ==
    LET l == Len(sentence)
        close == (st.nchar + (l \div 2)) * nchunk >= total_nchar * st.chunk_id
                    /\ st.chunk_id # nchunk
    IN  [nchar |-> st.nchar + l,
         chunk_id |-> IF close THEN st.chunk_id + 1 ELSE st.chunk_id,
         chunks |-> IF close THEN Append(st.chunks, strip(st.chunk_text)) ELSE st.chunks,
         chunk_text |-> IF close THEN <<>> ELSE st.chunk_text \o sentence]

\* variant of the packing step that closes a chunk in the middle of the
\* sentence at hand
pack_step_halve(st, sentence, total_nchar, nchunk) ==
    LET l == Len(sentence)
        close == (st.nchar + (l \div 2)) * nchunk >= total_nchar * st.chunk_id
                    /\ st.chunk_id # nchunk
    IN  [nchar |-> st.nchar + l,
         chunk_id |-> IF close THEN st.chunk_id + 1 ELSE st.chunk_id,
         chunks |-> IF close
                    THEN Append(st.chunks,
                                strip(st.chunk_text \o SubSeq(sentence, 1, l \div 2)))
                    ELSE st.chunks,
         chunk_text |-> IF close THEN SubSeq(sentence, (l \div 2) + 1, l)
                        ELSE st.chunk_text \o sentence]

\* lines 55-69: one iteration of the packing loop on the state
\* st = [nchar, chunk_id, chunks, chunk_text]
pack_step(st, sentence, total_nchar, nchunk) ==
    LET l == Len(sentence)
        close == exceeds_target(st.nchar, l, total_nchar, nchunk, st.chunk_id)
                    /\ st.chunk_id # nchunk
    IN  [nchar |-> st.nchar + l,
         chunk_id |-> IF close THEN st.chunk_id + 1 ELSE st.chunk_id,
         chunks |-> IF close THEN Append(st.chunks, strip(st.chunk_text)) ELSE st.chunks,
         chunk_text |-> (IF close THEN <<>> ELSE st.chunk_text) \o sentence]

RECURSIVE pack_loop(_, _, _, _)
pack_loop(st, sentences, total_nchar, nchunk) ==
    IF sentences = <<>> THEN st
    ELSE pack_loop(pack_step(st, Head(sentences), total_nchar, nchunk),
                   Tail(sentences), total_nchar, nchunk)

pack_init == [nchar |-> 0, chunk_id |-> 1, chunks |-> <<>>, chunk_text |-> <<>>]

\* variant of split_section that splits a text of exactly max_nchar
\* characters too
split_section_below(text, splitter, max_nchar) ==
    LET total_nchar == Len(text)
    IN  IF total_nchar < max_nchar THEN <<text>>
        ELSE LET nchunk == plan_nchunk(total_nchar, max_nchar)
                 st == pack_loop(pack_init, split_sentences(text, splitter),
                                 total_nchar, nchunk)
             IN  IF st.chunk_text # <<>>
                 THEN Append(st.chunks, strip(st.chunk_text))
                 ELSE st.chunks

\* variant of split_section that appends the final chunk untrimmed
split_section_untrimmed(text, splitter, max_nchar) ==
    LET total_nchar == Len(text)
    IN  IF total_nchar <= max_nchar THEN <<text>>
        ELSE LET nchunk == plan_nchunk(total_nchar, max_nchar)
                 st == pack_loop(pack_init, split_sentences(text, splitter),
                                 total_nchar, nchunk)
             IN  IF st.chunk_text # <<>>
                 THEN Append(st.chunks, st.chunk_text)
                 ELSE st.chunks

\* lines 24-74
split_section(text, splitter, max_nchar) ==
    LET total_nchar == Len(text)
    IN  IF total_nchar <= max_nchar THEN <<text>>
        ELSE LET nchunk == plan_nchunk(total_nchar, max_nchar)
                 st == pack_loop(pack_init, split_sentences(text, splitter),
                                 total_nchar, nchunk)
             IN  IF st.chunk_text # <<>>
                 THEN Append(st.chunks, strip(st.chunk_text))
                 ELSE st.chunks

\* ------------------------------------------------------------------------
\* make_passages_from_paragraphs.py : generate_passages
\* ------------------------------------------------------------------------

\* line 98: "\n".join([r["text"] for r in section_rows])
join_texts(rows) ==
    Flatten([k \in 1..Len(rows) |->
                IF k = 1 THEN rows[k].text ELSE <<NL>> \o rows[k].text])

\* lines 98-99: the chunks of the buffered group
section_chunks(rows, splitter, max_nchar) ==
    split_section(join_texts(rows), splitter, max_nchar)

\* lines 100-108: the passage yielded for one chunk, carrying the identity
\* of last
passage_item(last, passage_id, chunk) ==
    [id |-> passage_id,
     pageid |-> last.pageid,
     revid |-> last.revid,
     title |-> last.title,
     section |-> last.section,
     text |-> chunk]

\* variant of the counter that is not advanced after a yield
next_passage_id_same(passage_id) == passage_id

\* line 111
next_passage_id(passage_id) == passage_id + 1

\* variant of the record the passages take their identity from: the
\* incoming row
passage_source_row(row, last) == row

\* lines 103-106: the passages of a flush take pageid, revid, title and
\* section from lastrow, which is still the last record of the buffered
\* group, and not from the incoming row
passage_source(row, last) == last

\* variant of the key test that looks at the title only
key_changed_title(row, last) == row.title # last.title

\* line 96: the key of the incoming row differs from the key of lastrow
key_changed(row, last) == row.title # last.title \/ row.section # last.section

\* ------------------------------------------------------------------------
\* State
\* ------------------------------------------------------------------------
VARIABLES
    \* split_section: the arguments, the returned chunks, the position
    text, splitter, max_nchar, chunks, spc,
    \* generate_passages: the arguments (data is the content of
    \* paragraphs_file), the locals, the items yielded so far, the position;
    \* at position "yield" the generator is suspended at line 109 after the
    \* yield of the chunk_i-th chunk of the group
    data, max_passage_length, sentence_splitter,
    row_i, passage_id, section_rows, lastrow, out, gpc, chunk_i,
    \* normalize_text: the argument, the result of one application and of a
    \* second one to that result, the position
    raw, once, twice, npc,
    \* extract_paragraphs_from_html: the heading context, the number of
    \* sections entered and of tags enumerated in the current one, the tag at
    \* hand, the record yielded last, the position; nesting_ok is a history
    \* variable: no h4 was processed while h3 was None and no dt while h4 was
    \* None; section_h2 is the text of section.h2 of the section at hand
    \* (None when it has no h2); at position "yield" the generator is
    \* suspended at line 89 and the next step resumes the loop over the tags
    h2, h3, h4, dt, section_n, tag_n, tag, yielded, epc, nesting_ok,
    section_h2,
    \* main: the length limits of args, the number of lines read, the fields
    \* of the input item at hand, the index, the number of items taken from
    \* the generator for this line and the item at hand, the lines printed to
    \* the output file, the position
    min_paragraph_length, max_paragraph_length, line_n, input_item,
    paragraph_index, item_n, item, fo, mpc

splitVars == <<text, splitter, max_nchar, chunks, spc>>

genVars == <<data, max_passage_length, sentence_splitter,
             row_i, passage_id, section_rows, lastrow, out, gpc, chunk_i>>

normVars == <<raw, once, twice, npc>>

exVars == <<h2, h3, h4, dt, section_n, section_h2, tag_n, tag, yielded, epc,
           nesting_ok>>

mainVars == <<min_paragraph_length, max_paragraph_length, line_n, input_item,
              paragraph_index, item_n, item, fo, mpc>>

vars == <<splitVars, genVars, normVars, exVars, mainVars>>

IdleSplit ==
    /\ text = <<>>
    /\ splitter = {}
    /\ max_nchar = 0
    /\ chunks = <<>>
    /\ spc = "idle"

IdleGen ==
    /\ data = <<>>
    /\ max_passage_length = 0
    /\ sentence_splitter = {}
    /\ row_i = 0
    /\ passage_id = 0
    /\ section_rows = <<>>
    /\ lastrow = Unset
    /\ out = <<>>
    /\ gpc = "idle"
    /\ chunk_i = 0

IdleNorm ==
    /\ raw = <<>>
    /\ once = <<>>
    /\ twice = <<>>
    /\ npc = "idle"

IdleExtract ==
    /\ h2 = None
    /\ h3 = None
    /\ h4 = None
    /\ dt = None
    /\ section_n = 0
    /\ tag_n = 0
    /\ tag = Unset
    /\ yielded = Unset
    /\ section_h2 = Unset
    /\ epc = "idle"
    /\ nesting_ok = TRUE

IdleMain ==
    /\ min_paragraph_length = 0
    /\ max_paragraph_length = 0
    /\ line_n = 0
    /\ input_item = Unset
    /\ paragraph_index = 0
    /\ item_n = 0
    /\ item = Unset
    /\ fo = <<>>
    /\ mpc = "idle"

TextAlphabet == {"a", "b", SP, NL}

\* every text up to MaxTextLen, and the longer texts of lines of "a"
Texts == SeqsUpTo(TextAlphabet, MaxTextLen) \cup SeqsUpTo({"a", NL}, MaxLongLen)

Splitters == SUBSET (1..(MaxTextLen - 1))

\* the texts of 2000 characters of the worked example of the chunk balancer
\* (budget 750, the default of max_nchar): without whitespace, with single
\* blanks, and of blanks only
DefaultMaxNchar == 750

ExampleTexts ==
    {[i \in 1..2000 |-> "a"],
     [i \in 1..2000 |-> IF i % 400 = 0 THEN SP ELSE "a"],
     [i \in 1..2000 |-> SP]}

ExampleSplitters == SUBSET {500, 667, 1000, 1500}

\* a text of 232 characters for the budget 17: 14 chunks are planned, and
\* the float 232/14 * 7 is above 116
RoundingText == [i \in 1..232 |-> "a"]

RoundingSplitters == {{34, 35, 65, 69, 97, 103} \cup s : s \in SUBSET {129, 130, 180}}

\* ------------------------------------------------------------------------
\* The chunk balancer applied to one text
\* ------------------------------------------------------------------------
InitSplit ==
    /\ \/ /\ text \in Texts
          /\ splitter \in Splitters
          /\ max_nchar \in 1..MaxBudget
       \/ /\ text \in ExampleTexts
          /\ splitter \in ExampleSplitters
          /\ max_nchar = DefaultMaxNchar
       \/ /\ text = RoundingText
          /\ splitter \in RoundingSplitters
          /\ max_nchar = 17
    /\ chunks = <<>>
    /\ spc = "call"
    /\ IdleGen
    /\ IdleNorm
    /\ IdleExtract
    /\ IdleMain

SplitSection ==
    /\ spc = "call"
    /\ chunks' = split_section(text, splitter, max_nchar)
    /\ spc' = "done"
    /\ UNCHANGED <<text, splitter, max_nchar, genVars, normVars, exVars, mainVars>>

NextSplit == SplitSection

SpecSplit == InitSplit /\ [][NextSplit]_vars

\* ------------------------------------------------------------------------
\* The passage grouper run over one paragraph-record stream
\* ------------------------------------------------------------------------
Titles == {"A", "B"}

\* the section dictionaries {}, {h2: X} and {h2: X, h3: Y}; an absent key is
\* None
Section(a, b, c, d) == [h2 |-> a, h3 |-> b, h4 |-> c, dt |-> d]

RowSections ==
    {Section(None, None, None, None), Section(<<"X">>, None, None, None),
     Section(<<"X">>, <<"Y">>, None, None)}

RowTexts == {<<"a", "a", "a">>, <<"b">>}

\* a page has one id and one revision
PageIdOf(title) == IF title = "A" THEN 1 ELSE 2

RevIdOf(title) == IF title = "A" THEN 10 ELSE 20

Row(title, section, t) ==
    [title |-> title, section |-> section, pageid |-> PageIdOf(title),
     revid |-> RevIdOf(title), text |-> t]

Rows == {Row(t, s, x) : t \in Titles, s \in RowSections, x \in RowTexts}

\* the stream of the worked example: two paragraphs of title A under h2 X
SentenceOne == <<"S", "e", "n", "t", "e", "n", "c", "e", " ", "o", "n", "e", ".">>

SentenceTwo == <<"S", "e", "n", "t", "e", "n", "c", "e", " ", "t", "w", "o", ".">>

ExampleStream ==
    <<Row("A", Section(<<"X">>, None, None, None), SentenceOne),
      Row("A", Section(<<"X">>, None, None, None), SentenceTwo)>>

\* a stream whose first group is the text of 232 characters, followed by a
\* record of another title
RoundingStream ==
    <<Row("A", Section(None, None, None, None), RoundingText),
      Row("B", Section(None, None, None, None), <<"b">>)>>

InitGen ==
    /\ \/ /\ data \in SeqsUpTo(Rows, MaxRows)
          /\ max_passage_length \in 2..3
          /\ sentence_splitter \in {{}, {1}}
       \/ /\ data = ExampleStream
          /\ max_passage_length = 1000
          /\ sentence_splitter \in {{}, {1}}
       \/ /\ data = RoundingStream
          /\ max_passage_length = 17
          /\ sentence_splitter \in RoundingSplitters
    /\ row_i = 0
    /\ passage_id = 0
    /\ section_rows = <<>>
    /\ lastrow = Unset
    /\ out = <<>>
    /\ gpc = "open"
    /\ chunk_i = 0
    /\ IdleSplit
    /\ IdleNorm
    /\ IdleExtract
    /\ IdleMain

\* lines 82-89: read the file; lastrow = data[0] raises IndexError on an
\* empty file
GenOpen ==
    /\ gpc = "open"
    /\ data # <<>>
    /\ passage_id' = 0
    /\ section_rows' = <<>>
    /\ lastrow' = data[1]
    /\ row_i' = 1
    /\ gpc' = "loop"
    /\ UNCHANGED <<data, max_passage_length, sentence_splitter, out, chunk_i,
                   splitVars, normVars, exVars, mainVars>>

GenOpenEmpty ==
    /\ gpc = "open"
    /\ data = <<>>
    /\ gpc' = "error"
    /\ UNCHANGED <<data, max_passage_length, sentence_splitter, row_i, passage_id,
                   section_rows, lastrow, out, chunk_i, splitVars,
                   normVars, exVars, mainVars>>

\* lines 91-109, the key changed: the buffered group is split and the
\* generator runs to the yield of the first chunk, where it is suspended;
\* without a chunk it goes on to lines 112-115
GenRowFlush ==
    /\ gpc = "loop"
    /\ row_i <= Len(data)
    /\ key_changed(data[row_i], lastrow)
    /\ LET cs == section_chunks(section_rows, sentence_splitter, max_passage_length)
       IN  IF cs = <<>>
           THEN /\ section_rows' = <<data[row_i]>>
                /\ lastrow' = data[row_i]
                /\ row_i' = row_i + 1
                /\ UNCHANGED <<out, gpc, chunk_i>>
           ELSE /\ out' = Append(out, passage_item(passage_source(data[row_i], lastrow),
                                                   passage_id, cs[1]))
                /\ chunk_i' = 1
                /\ gpc' = "yield"
                /\ UNCHANGED <<section_rows, lastrow, row_i>>
    /\ UNCHANGED <<data, max_passage_length, sentence_splitter, passage_id,
                   splitVars, normVars, exVars, mainVars>>

\* lines 111, 99-109: resumed, the generator advances the counter and runs
\* to the yield of the next chunk
GenNextChunk ==
    /\ gpc = "yield"
    /\ LET cs == section_chunks(section_rows, sentence_splitter, max_passage_length)
       IN  /\ chunk_i < Len(cs)
           /\ passage_id' = next_passage_id(passage_id)
           /\ out' = Append(out, passage_item(passage_source(data[row_i], lastrow),
                                              passage_id', cs[chunk_i + 1]))
    /\ chunk_i' = chunk_i + 1
    /\ UNCHANGED <<data, max_passage_length, sentence_splitter, row_i, section_rows,
                   lastrow, gpc, splitVars, normVars, exVars, mainVars>>

\* lines 111-115: resumed after the last chunk, the generator advances the
\* counter, empties the buffer and buffers row
GenFlushEnd ==
    /\ gpc = "yield"
    /\ chunk_i = Len(section_chunks(section_rows, sentence_splitter, max_passage_length))
    /\ passage_id' = next_passage_id(passage_id)
    /\ section_rows' = <<data[row_i]>>
    /\ lastrow' = data[row_i]
    /\ row_i' = row_i + 1
    /\ chunk_i' = 0
    /\ gpc' = "loop"
    /\ UNCHANGED <<data, max_passage_length, sentence_splitter, out,
                   splitVars, normVars, exVars, mainVars>>

\* lines 91-115, the key did not change: buffer row
GenRowSame ==
    /\ gpc = "loop"
    /\ row_i <= Len(data)
    /\ ~key_changed(data[row_i], lastrow)
    /\ section_rows' = Append(section_rows, data[row_i])
    /\ lastrow' = data[row_i]
    /\ row_i' = row_i + 1
    /\ UNCHANGED <<data, max_passage_length, sentence_splitter, passage_id, out, gpc,
                   chunk_i, splitVars, normVars, exVars, mainVars>>

\* line 91: the loop is exhausted and the generator returns
GenReturn ==
    /\ gpc = "loop"
    /\ row_i > Len(data)
    /\ gpc' = "done"
    /\ UNCHANGED <<data, max_passage_length, sentence_splitter, row_i, passage_id,
                   section_rows, lastrow, out, chunk_i, splitVars,
                   normVars, exVars, mainVars>>

NextGen ==
    \/ GenOpen
    \/ GenOpenEmpty
    \/ GenRowFlush
    \/ GenNextChunk
    \/ GenFlushEnd
    \/ GenRowSame
    \/ GenReturn

SpecGen == InitGen /\ [][NextGen]_vars

\* ------------------------------------------------------------------------
\* normalize_text applied to one string, and again to its result
\* ------------------------------------------------------------------------
NormAlphabet == {"a", SP, NL, NUL, IDSP, ACUTE}

InitNorm ==
    /\ raw \in SeqsUpTo(NormAlphabet, MaxNormLen)
    /\ once = <<>>
    /\ twice = <<>>
    /\ npc = "call"
    /\ IdleSplit
    /\ IdleGen
    /\ IdleExtract
    /\ IdleMain

NormalizeOnce ==
    /\ npc = "call"
    /\ once' = normalize_text(raw)
    /\ npc' = "once"
    /\ UNCHANGED <<raw, twice, splitVars, genVars, exVars, mainVars>>

NormalizeTwice ==
    /\ npc = "once"
    /\ twice' = normalize_text(once)
    /\ npc' = "twice"
    /\ UNCHANGED <<raw, once, splitVars, genVars, exVars, mainVars>>

NextNorm == NormalizeOnce \/ NormalizeTwice

SpecNorm == InitNorm /\ [][NextNorm]_vars

\* ------------------------------------------------------------------------
\* The section walker over one document.  The document is read as the
\* walker meets it: each section with or without an h2, and the elements
\* that section.find_all(tags_to_extract) enumerates, in document order.
\* An element is its name, its text without the inner tags that are
\* cleared, and whether it has a dd, li, th or tr ancestor.
\* ------------------------------------------------------------------------
HeadingTexts == {<<"X">>}

TagTexts == {<<"a">>, <<SP, "b">>}

ElementNames == {"p", "li", "h3", "h4", "dt"}

\* the h3, h4 and dt elements take every text, the others one text that
\* normalization changes
Elements ==
    {el \in [name : ElementNames, text : TagTexts, nested : BOOLEAN] :
        el.name \notin {"h3", "h4", "dt"} => el.text = <<SP, "b">>}

Ctx == [h2 |-> h2, h3 |-> h3, h4 |-> h4, dt |-> dt]

SetCtx(c) ==
    /\ h2' = c.h2
    /\ h3' = c.h3
    /\ h4' = c.h4
    /\ dt' = c.dt

\* lines 40-46
InitExtract ==
    /\ h2 = None
    /\ h3 = None
    /\ h4 = None
    /\ dt = None
    /\ section_n = 0
    /\ tag_n = 0
    /\ tag = Unset
    /\ yielded = Unset
    /\ section_h2 = Unset
    /\ epc = "while"
    /\ nesting_ok = TRUE
    /\ IdleSplit
    /\ IdleGen
    /\ IdleNorm
    /\ IdleMain

\* lines 47-57: the next section has an h2
EnterSectionWithH2 ==
    /\ epc = "while"
    /\ section_n < MaxSections
    /\ \E h2text \in HeadingTexts :
         /\ section_h2' = h2text
         /\ SetCtx(reset_below_h2(Ctx, h2text))
    /\ section_n' = section_n + 1
    /\ tag_n' = 0
    /\ tag' = Unset
    /\ epc' = "tags"
    /\ UNCHANGED <<yielded, nesting_ok, splitVars, genVars, normVars, mainVars>>

\* lines 47-57: the next section has no h2
EnterSectionWithoutH2 ==
    /\ epc = "while"
    /\ section_n < MaxSections
    /\ section_n' = section_n + 1
    /\ section_h2' = None
    /\ tag_n' = 0
    /\ tag' = Unset
    /\ epc' = "tags"
    /\ UNCHANGED <<h2, h3, h4, dt, yielded, nesting_ok, splitVars, genVars,
                   normVars, mainVars>>

\* line 47: there is no further section
NoMoreSection ==
    /\ epc = "while"
    /\ epc' = "done"
    /\ UNCHANGED <<h2, h3, h4, dt, section_n, section_h2, tag_n, tag, yielded,
                   nesting_ok, splitVars, genVars, normVars, mainVars>>

\* lines 58-67: the tag is below a dd, li, th or tr
TagSkipped ==
    /\ epc \in {"tags", "yield"}
    /\ tag_n < MaxTags
    /\ \E el \in Elements :
         /\ el.name \in DEFAULT_TAGS_TO_EXTRACT
         /\ skip_tag(el)
         /\ tag' = el
    /\ tag_n' = tag_n + 1
    /\ epc' = "tags"
    /\ UNCHANGED <<h2, h3, h4, dt, section_n, section_h2, yielded,
                   nesting_ok, splitVars, genVars, normVars, mainVars>>

\* lines 73-77
TagH3 ==
    /\ epc \in {"tags", "yield"}
    /\ tag_n < MaxTags
    /\ \E el \in Elements :
         /\ el.name \in DEFAULT_TAGS_TO_EXTRACT
         /\ ~skip_tag(el)
         /\ el.name = "h3"
         /\ tag' = el
         /\ SetCtx(reset_below_h3(Ctx, el.text))
    /\ tag_n' = tag_n + 1
    /\ epc' = "tags"
    /\ UNCHANGED <<section_n, section_h2, yielded, nesting_ok, splitVars, genVars,
                   normVars, mainVars>>

\* lines 79-82
TagH4 ==
    /\ epc \in {"tags", "yield"}
    /\ tag_n < MaxTags
    /\ \E el \in Elements :
         /\ el.name \in DEFAULT_TAGS_TO_EXTRACT
         /\ ~skip_tag(el)
         /\ el.name = "h4"
         /\ tag' = el
         /\ SetCtx(reset_below_h4(Ctx, el.text))
    /\ tag_n' = tag_n + 1
    /\ epc' = "tags"
    /\ nesting_ok' = (nesting_ok /\ h3 # None)
    /\ UNCHANGED <<section_n, section_h2, yielded, splitVars, genVars,
                   normVars, mainVars>>

\* lines 84-86
TagDt ==
    /\ epc \in {"tags", "yield"}
    /\ tag_n < MaxTags
    /\ \E el \in Elements :
         /\ el.name \in DEFAULT_TAGS_TO_EXTRACT
         /\ ~skip_tag(el)
         /\ el.name = "dt"
         /\ tag' = el
         /\ SetCtx(set_dt(Ctx, el.text))
    /\ tag_n' = tag_n + 1
    /\ epc' = "tags"
    /\ nesting_ok' = (nesting_ok /\ h4 # None)
    /\ UNCHANGED <<section_n, section_h2, yielded, splitVars, genVars,
                   normVars, mainVars>>

\* lines 88-89: any other tag yields a record
TagParagraph ==
    /\ epc \in {"tags", "yield"}
    /\ tag_n < MaxTags
    /\ \E el \in Elements :
         /\ el.name \in DEFAULT_TAGS_TO_EXTRACT
         /\ ~skip_tag(el)
         /\ el.name \notin {"h3", "h4", "dt"}
         /\ tag' = el
         /\ yielded' = paragraph_record(Ctx, el)
    /\ tag_n' = tag_n + 1
    /\ epc' = "yield"
    /\ UNCHANGED <<h2, h3, h4, dt, section_n, section_h2, nesting_ok,
                   splitVars, genVars, normVars, mainVars>>

\* line 91: the tags of the section are exhausted
NextSibling ==
    /\ epc \in {"tags", "yield"}
    /\ epc' = "while"
    /\ UNCHANGED <<h2, h3, h4, dt, section_n, section_h2, tag_n, tag, yielded,
                   nesting_ok, splitVars, genVars, normVars, mainVars>>

NextExtract ==
    \/ EnterSectionWithH2
    \/ EnterSectionWithoutH2
    \/ NoMoreSection
    \/ TagSkipped
    \/ TagH3
    \/ TagH4
    \/ TagDt
    \/ TagParagraph
    \/ NextSibling

SpecExtract == InitExtract /\ [][NextExtract]_vars

\* ------------------------------------------------------------------------
\* main over one input file.  Each line is one page; the items of the page
\* are taken from extract_paragraphs_from_html as main asks for them.
\* ------------------------------------------------------------------------
DEFAULT_SECTIONS_TO_IGNORE ==
    {<<"U+811A", "U+6CE8">>, <<"U+51FA", "U+5178">>,
     <<"U+53C2", "U+8003", "U+6587", "U+732E">>,
     <<"U+95A2", "U+9023", "U+9805", "U+76EE">>,
     <<"U+5916", "U+90E8", "U+30EA", "U+30F3", "U+30AF">>}

\* line 132
in_ignored_section(sections, sections_to_ignore) == sections[1] \in sections_to_ignore

\* line 134
too_short(paragraph_text, min_length) == Len(paragraph_text) < min_length

\* line 136
too_long(paragraph_text, max_length) == Len(paragraph_text) > max_length

\* lines 139-147: the levels that are not None; an absent key is None
sections_dict(sections) == Section(sections[1], sections[2], sections[3], sections[4])

\* variant of the output item that always carries the index 0
output_item_index_zero(input, index, it) ==
    [id |-> <<input.pageid, input.revid, 0>>,
     pageid |-> input.pageid,
     revid |-> input.revid,
     paragraph_index |-> 0,
     title |-> input.title,
     section |-> sections_dict(it.sections),
     text |-> it.text,
     html_tag |-> it.name]

\* lines 150-159; the id "pageid-revid-index" is the triple of its parts
output_item(input, index, it) ==
    [id |-> <<input.pageid, input.revid, index>>,
     pageid |-> input.pageid,
     revid |-> input.revid,
     paragraph_index |-> index,
     title |-> input.title,
     section |-> sections_dict(it.sections),
     text |-> it.text,
     html_tag |-> it.name]

\* the n-th line of the input file: every page has its own id
InputItem(n) == [pageid |-> n, revid |-> 10 * n, title |-> "A"]

ItemH2s == {<<"X">>, <<"U+811A", "U+6CE8">>}

ItemTexts == {<<"a">>, <<"a", "a">>, <<"a", "a", "a">>}

\* items that extract_paragraphs_from_html yields
Items ==
    {paragraph_record(Section(h, None, None, None),
                      [name |-> "p", text |-> t, nested |-> FALSE]) :
        h \in ItemH2s, t \in ItemTexts}

InitMain ==
    /\ min_paragraph_length \in 1..2
    /\ max_paragraph_length = 2
    /\ line_n = 0
    /\ input_item = Unset
    /\ paragraph_index = 0
    /\ item_n = 0
    /\ item = Unset
    /\ fo = <<>>
    /\ mpc = "lines"
    /\ IdleSplit
    /\ IdleGen
    /\ IdleNorm
    /\ IdleExtract

\* lines 121-128: the next line of the input file
MainReadLine ==
    /\ mpc = "lines"
    /\ line_n < MaxLines
    /\ line_n' = line_n + 1
    /\ input_item' = InputItem(line_n + 1)
    /\ paragraph_index' = 0
    /\ item_n' = 0
    /\ item' = Unset
    /\ mpc' = "items"
    /\ UNCHANGED <<min_paragraph_length, max_paragraph_length, fo,
                   splitVars, genVars, normVars, exVars>>

\* line 121: the input file is exhausted
MainEnd ==
    /\ mpc = "lines"
    /\ mpc' = "done"
    /\ UNCHANGED <<min_paragraph_length, max_paragraph_length, line_n, input_item,
                   paragraph_index, item_n, item, fo,
                   splitVars, genVars, normVars, exVars>>

\* lines 129-133: the item is of a section to ignore
MainSkipIgnored ==
    /\ mpc = "items"
    /\ item_n < MaxItems
    /\ \E it \in Items :
         /\ in_ignored_section(it.sections, DEFAULT_SECTIONS_TO_IGNORE)
         /\ item' = it
    /\ item_n' = item_n + 1
    /\ UNCHANGED <<min_paragraph_length, max_paragraph_length, line_n, input_item,
                   paragraph_index, fo, mpc,
                   splitVars, genVars, normVars, exVars>>

\* lines 129-135: the text of the item is too short
MainSkipShort ==
    /\ mpc = "items"
    /\ item_n < MaxItems
    /\ \E it \in Items :
         /\ ~in_ignored_section(it.sections, DEFAULT_SECTIONS_TO_IGNORE)
         /\ too_short(it.text, min_paragraph_length)
         /\ item' = it
    /\ item_n' = item_n + 1
    /\ UNCHANGED <<min_paragraph_length, max_paragraph_length, line_n, input_item,
                   paragraph_index, fo, mpc,
                   splitVars, genVars, normVars, exVars>>

\* lines 129-137: the text of the item is too long
MainSkipLong ==
    /\ mpc = "items"
    /\ item_n < MaxItems
    /\ \E it \in Items :
         /\ ~in_ignored_section(it.sections, DEFAULT_SECTIONS_TO_IGNORE)
         /\ ~too_short(it.text, min_paragraph_length)
         /\ too_long(it.text, max_paragraph_length)
         /\ item' = it
    /\ item_n' = item_n + 1
    /\ UNCHANGED <<min_paragraph_length, max_paragraph_length, line_n, input_item,
                   paragraph_index, fo, mpc,
                   splitVars, genVars, normVars, exVars>>

\* lines 129-161: the item is printed with the index, which then advances
MainWrite ==
    /\ mpc = "items"
    /\ item_n < MaxItems
    /\ \E it \in Items :
         /\ ~in_ignored_section(it.sections, DEFAULT_SECTIONS_TO_IGNORE)
         /\ ~too_short(it.text, min_paragraph_length)
         /\ ~too_long(it.text, max_paragraph_length)
         /\ item' = it
         /\ fo' = Append(fo, output_item(input_item, paragraph_index, it))
    /\ paragraph_index' = paragraph_index + 1
    /\ item_n' = item_n + 1
    /\ UNCHANGED <<min_paragraph_length, max_paragraph_length, line_n, input_item,
                   mpc, splitVars, genVars, normVars, exVars>>

\* line 129: the generator is exhausted
MainItemsExhausted ==
    /\ mpc = "items"
    /\ mpc' = "lines"
    /\ UNCHANGED <<min_paragraph_length, max_paragraph_length, line_n, input_item,
                   paragraph_index, item_n, item, fo,
                   splitVars, genVars, normVars, exVars>>

NextMain ==
    \/ MainReadLine
    \/ MainEnd
    \/ MainSkipIgnored
    \/ MainSkipShort
    \/ MainSkipLong
    \/ MainWrite
    \/ MainItemsExhausted

SpecMain == InitMain /\ [][NextMain]_vars

\* ------------------------------------------------------------------------
\* Properties of the chunk balancer
\* ------------------------------------------------------------------------
SplitDone == spc = "done"

Planned == plan_nchunk(Len(text), max_nchar)

Sentences == split_sentences(text, splitter)

HasNoSpace(t) == \A i \in 1..Len(t) : ~IsSpace(t[i])

\* the text with every run of newlines replaced by one newline
CollapseNewlines(t) ==
    LET lines == re_split_newlines(t)
    IN  Flatten([k \in 1..Len(lines) |->
                    IF k = 1 THEN lines[k] ELSE <<NL>> \o lines[k]])

\* t is the chunks cs in order, each taken without the whitespace at its
\* ends, with nothing but whitespace before, between and after them
RECURSIVE Reconstructs(_, _)
Reconstructs(t, cs) ==
    IF cs = <<>> THEN \A i \in 1..Len(t) : IsSpace(t[i])
    ELSE IF strip(Head(cs)) = <<>> THEN Reconstructs(t, Tail(cs))
    ELSE LET c == strip(Head(cs))
             keep == {i \in 1..Len(t) : ~IsSpace(t[i])}
         IN  /\ keep # {}
             /\ SetMin(keep) + Len(c) - 1 <= Len(t)
             /\ SubSeq(t, SetMin(keep), SetMin(keep) + Len(c) - 1) = c
             /\ Reconstructs(SubSeq(t, SetMin(keep) + Len(c), Len(t)), Tail(cs))

LongestSentence ==
    IF Sentences = <<>> THEN 0
    ELSE SetMax({Len(Sentences[k]) : k \in 1..Len(Sentences)})

\* C3 as stated: every chunk but the final one is within the budget
C3_ChunkBudget ==
    SplitDone => \A i \in 1..(Len(chunks) - 1) : Len(chunks[i]) <= max_nchar

\* C3 amended: every chunk but the final one exceeds the budget by at most
\* the length of the longest sentence
C3_ChunkBudgetUpToSentence ==
    SplitDone =>
        \A i \in 1..(Len(chunks) - 1) : Len(chunks[i]) <= max_nchar + LongestSentence

C3_Witness ==
    /\ SplitDone
    /\ Len(text) > max_nchar
    /\ \E i \in 1..(Len(chunks) - 1) : Len(chunks[i]) > max_nchar

\* C5 as stated: the chunks, in order and separated by whitespace only,
\* reconstruct the text; nothing but the whitespace trimmed at the ends of
\* the chunks differs
C5_RoundTrip == SplitDone => Reconstructs(text, chunks)

\* C5 amended: a text within the budget is returned as it is; the chunks of
\* a longer text reconstruct the text in which every run of newlines is
\* collapsed to one newline
C5_RoundTripUpToNewlineRuns ==
    SplitDone =>
        IF Len(text) <= max_nchar THEN chunks = <<text>>
        ELSE Reconstructs(CollapseNewlines(text), chunks)

C5_Witness ==
    /\ SplitDone
    /\ Len(text) > max_nchar
    /\ Len(chunks) >= 2
    /\ \E i \in 2..(Len(text) - 1) : text[i] = NL /\ text[i-1] = NL
    /\ \E k \in 1..Len(chunks) : \E i \in 1..Len(chunks[k]) : chunks[k][i] = NL

\* C6: a text longer than the budget is split into at most the planned
\* number of chunks
C6_ChunkCountBound ==
    (SplitDone /\ Len(text) > max_nchar) => Len(chunks) <= Planned

C6_Witness ==
    /\ SplitDone
    /\ Len(text) > max_nchar
    /\ Planned >= 2
    /\ Len(chunks) = Planned
    /\ Len(Sentences) > Planned

\* the splitter finds no sentence boundary: the text is a single line and
\* the splitter returns it whole
SingleSentence ==
    /\ \A i \in 1..Len(text) : text[i] # NL
    /\ splitter_call(splitter, text) = <<text>>

\* C8 as stated: a text longer than the budget that is one sentence becomes
\* exactly the planned number of chunks
C8_SingleSentencePlanned ==
    (SplitDone /\ Len(text) > max_nchar /\ SingleSentence) => Len(chunks) = Planned

\* C8 amended: a text longer than the budget that is one sentence becomes
\* exactly two chunks, an empty one followed by the trimmed text
C8_SingleSentenceTwoChunks ==
    (SplitDone /\ Len(text) > max_nchar /\ SingleSentence) =>
        chunks = << <<>>, strip(text) >>

C8_Witness ==
    /\ SplitDone
    /\ Len(text) > max_nchar
    /\ SingleSentence
    /\ Planned >= 3
    /\ Len(chunks) = 2

IsExample == Len(text) = 2000 /\ max_nchar = DefaultMaxNchar

\* C10 as stated: a text of 2000 characters with budget 750 becomes exactly 3
\* non-empty chunks that reconstruct the text, whatever the sentences are
C10_ThreeChunks ==
    (SplitDone /\ IsExample) =>
        /\ Len(chunks) = 3
        /\ \A i \in 1..Len(chunks) : chunks[i] # <<>>
        /\ Reconstructs(text, chunks)

\* C10 amended: it does so when the text has no whitespace and no sentence
\* returned by the splitter is longer than 666 characters
ShortSentences ==
    LET ss == splitter_call(splitter, text)
    IN  \A k \in 1..Len(ss) : Len(ss[k]) <= 666

C10_ThreeChunksShortSentences ==
    (SplitDone /\ IsExample /\ HasNoSpace(text) /\ ShortSentences) =>
        /\ Len(chunks) = 3
        /\ \A i \in 1..Len(chunks) : chunks[i] # <<>>
        /\ Flatten(chunks) = text

C10_Witness ==
    /\ SplitDone
    /\ IsExample
    /\ HasNoSpace(text)
    /\ ShortSentences
    /\ Len(chunks) = 3

\* ------------------------------------------------------------------------
\* Properties of the passage grouper
\* ------------------------------------------------------------------------
GenDone == gpc = "done"

NonSpace(t) == SelectSeq(t, LAMBDA c : ~IsSpace(c))

\* the characters, whitespace aside, of the texts of records or passages
Content(items) == NonSpace(Flatten([k \in 1..Len(items) |-> items[k].text]))

\* C1: once the whole non-empty stream is consumed every group, the last
\* one included, is flushed: the passages carry the text of every record
C1_EndOfStreamFlush ==
    (GenDone /\ data # <<>>) => Content(out) = Content(data)

\* C4: the k-th emitted passage (k = 0, 1, ...) has id k
C4_DenseIds == \A k \in 1..Len(out) : out[k].id = k - 1

C4_Witness ==
    /\ GenDone
    /\ Len(out) >= 3
    /\ \E i, j \in 1..Len(out) : out[i].title # out[j].title
    /\ \E i \in 1..(Len(out) - 1) :
            out[i].title = out[i+1].title /\ out[i].section = out[i+1].section

\* C7: the two-record stream of the example with max_chars = 1000 yields
\* exactly one passage, the two texts joined by one newline
C7_ExampleOnePassage ==
    (GenDone /\ data = ExampleStream /\ max_passage_length = 1000) =>
        /\ Len(out) = 1
        /\ out[1].text = SentenceOne \o <<NL>> \o SentenceTwo

\* ------------------------------------------------------------------------
\* Properties of the section walker
\* ------------------------------------------------------------------------
Monotone(sections) ==
    /\ sections[2] = None => (sections[3] = None /\ sections[4] = None)
    /\ sections[3] = None => sections[4] = None

\* C2 as stated: in every document every yielded record has a context in
\* which h3 absent implies h4 and dt absent, and h4 absent implies dt absent
C2_MonotoneContext == yielded # Unset => Monotone(yielded.sections)

\* C2 amended: it has in every document in which no h4 element is processed
\* while h3 is absent and no dt element while h4 is absent
C2_MonotoneContextWhenNested ==
    (yielded # Unset /\ nesting_ok) => Monotone(yielded.sections)

C2_Witness ==
    /\ yielded # Unset
    /\ nesting_ok
    /\ \A k \in 1..4 : yielded.sections[k] # None

\* ------------------------------------------------------------------------
\* Properties of normalize_text
\* ------------------------------------------------------------------------

\* C9: a second application of normalize_text changes nothing, and the
\* result of one application has no whitespace at its ends, no two
\* whitespace characters in a row and no non-printable character
C9_Idempotent ==
    npc = "twice" =>
        /\ twice = once
        /\ strip(once) = once
        /\ \A i \in 1..(Len(once) - 1) : ~(IsSpace(once[i]) /\ IsSpace(once[i+1]))
        /\ \A i \in 1..Len(once) : IsPrintable(once[i])

\* ------------------------------------------------------------------------
\* Further properties of the chunk balancer
\* ------------------------------------------------------------------------

\* the chunks cs are, each up to the whitespace at its ends, consecutive
\* runs of whole sentences of ss that together use every sentence once
RECURSIVE WholeSentenceRuns(_, _)
WholeSentenceRuns(ss, cs) ==
    IF cs = <<>> THEN ss = <<>>
    ELSE \E k \in 0..Len(ss) :
            /\ strip(Flatten(SubSeq(ss, 1, k))) = Head(cs)
            /\ WholeSentenceRuns(SubSeq(ss, k + 1, Len(ss)), Tail(cs))

\* C11: no sentence is broken: the chunks of a text longer than the budget
\* are trimmed runs of whole sentences, so every chunk boundary is a
\* sentence boundary
C11_WholeSentences ==
    (SplitDone /\ Len(text) > max_nchar) => WholeSentenceRuns(Sentences, chunks)

C11_Witness ==
    /\ SplitDone
    /\ Len(text) > max_nchar
    /\ Len(chunks) >= 2
    /\ Len(Sentences) > Len(chunks)
    /\ \A i \in 1..Len(chunks) : chunks[i] # <<>>

\* C12: a text within the budget, a text of exactly max_nchar characters
\* and the empty text included, is returned as the single chunk, untrimmed
C12_ShortTextUnchanged ==
    (SplitDone /\ Len(text) <= max_nchar) => chunks = <<text>>

C12_Witness ==
    /\ SplitDone
    /\ Len(text) = max_nchar
    /\ strip(text) # text
    /\ chunks = <<text>>

\* C15: for a text longer than the budget the loop of the chunk count ends,
\* after at most one increment of the estimate, with a count of at least 1
\* whose average chunk length is within the budget
C15_EstimationTerminates ==
    (SplitDone /\ Len(text) > max_nchar) =>
        /\ estimate_nchunk(Len(text), max_nchar) >= 1
        /\ Planned - estimate_nchunk(Len(text), max_nchar) \in {0, 1}
        /\ Planned >= 1
        /\ Len(text) <= max_nchar * Planned

C15_Witness ==
    /\ SplitDone
    /\ Len(text) > max_nchar
    /\ Planned = estimate_nchunk(Len(text), max_nchar) + 1

\* the state of the packing loop before the k-th sentence and after it
PackBefore(k) == pack_loop(pack_init, SubSeq(Sentences, 1, k - 1), Len(text), Planned)

PackAfter(k) == pack_step(PackBefore(k), Sentences[k], Len(text), Planned)

\* the k-th sentence closed the chunk and opened the next one with itself
ClosedAt(k) ==
    /\ PackAfter(k).chunk_id = PackBefore(k).chunk_id + 1
    /\ PackAfter(k).chunks = Append(PackBefore(k).chunks, strip(PackBefore(k).chunk_text))
    /\ PackAfter(k).chunk_text = Sentences[k]

\* the k-th sentence was packed into the chunk at hand
PackedAt(k) ==
    /\ PackAfter(k).chunk_id = PackBefore(k).chunk_id
    /\ PackAfter(k).chunks = PackBefore(k).chunks
    /\ PackAfter(k).chunk_text = PackBefore(k).chunk_text \o Sentences[k]

\* nchar + l/2 >= target * k with the exact half of l, and k is not the
\* last planned chunk
ExactHalfRule(k) ==
    /\ (2 * PackBefore(k).nchar + Len(Sentences[k])) * Planned
            >= 2 * Len(text) * PackBefore(k).chunk_id
    /\ PackBefore(k).chunk_id # Planned

\* C17 as stated: a sentence closes the chunk exactly when the rule with the
\* exact half of its length holds, and is packed otherwise
C17_ExactHalfSplitRule ==
    (SplitDone /\ Len(text) > max_nchar) =>
        \A k \in 1..Len(Sentences) :
            IF ExactHalfRule(k) THEN ClosedAt(k) ELSE PackedAt(k)

\* ------------------------------------------------------------------------
\* Further properties of the passage grouper
\* ------------------------------------------------------------------------
SameKey(r1, r2) == r1.title = r2.title /\ r1.section = r2.section

\* the consecutive records that end with the j-th one and have its key
RunBefore(d, j) ==
    LET first == SetMin({i \in 1..j : \A m \in i..j : SameKey(d[m], d[j])})
    IN  SubSeq(d, first, j)

\* the passages added to out by the step
Emitted == SubSeq(out', Len(out) + 1, Len(out'))

\* the chunks of the run of records that ends before the incoming one
RunChunks ==
    split_section(join_texts(RunBefore(data, row_i - 1)), sentence_splitter,
                  max_passage_length)

\* C13: a passage is emitted only while the key of the incoming record
\* differs from the key of the record before it; the buffer holds exactly
\* the consecutive records with the key of the last one read; the passages
\* of one flush are, one by one, the chunks of the joined texts of that one
\* run of records, and the flush ends after the last of them
C13_GroupMerging ==
    [][/\ (gpc' \in {"loop", "yield"} /\ row_i' > 1) =>
            section_rows' = RunBefore(data, row_i' - 1)
       /\ out' # out =>
            /\ row_i > 1
            /\ row_i <= Len(data)
            /\ row_i' = row_i
            /\ ~SameKey(data[row_i], data[row_i - 1])
            /\ Len(Emitted) = 1
            /\ chunk_i' = chunk_i + 1
            /\ chunk_i' <= Len(RunChunks)
            /\ Emitted[1].text = RunChunks[chunk_i']
       /\ (gpc = "yield" /\ gpc' = "loop") => chunk_i = Len(RunChunks)
       /\ (gpc = "loop" /\ row_i' = row_i + 1 /\ row_i > 1) =>
            (SameKey(data[row_i], data[row_i - 1]) \/ RunChunks = <<>>)]_vars

C13_Witness ==
    /\ GenDone
    /\ Len(data) = 3
    /\ SameKey(data[1], data[2])
    /\ ~SameKey(data[2], data[3])
    /\ out # <<>>
    /\ \E i \in 1..Len(out[1].text) : out[1].text[i] = NL

\* C20: every passage of a flush extends the output, the passages of one
\* group coming in chunk order, and carries the pageid, revid, title and
\* section of the last record of the flushed group, a title and section
\* shared by every buffered record and different from those of the incoming
\* record
C20_PassageIdentity ==
    [][out' # out =>
        /\ row_i <= Len(data)
        /\ SubSeq(out', 1, Len(out)) = out
        /\ Len(Emitted) = 1
        /\ chunk_i' = chunk_i + 1
        /\ UNCHANGED <<lastrow, section_rows, row_i>>
        /\ Emitted[1].pageid = lastrow.pageid
        /\ Emitted[1].revid = lastrow.revid
        /\ Emitted[1].title = lastrow.title
        /\ Emitted[1].section = lastrow.section
        /\ \A j \in 1..Len(section_rows) : SameKey(Emitted[1], section_rows[j])
        /\ ~SameKey(Emitted[1], data[row_i])
        /\ Emitted[1].text
             = split_section(join_texts(section_rows), sentence_splitter,
                             max_passage_length)[chunk_i']]_vars

C20_Witness ==
    /\ gpc = "loop"
    /\ row_i = 3
    /\ Len(section_rows) = 1
    /\ Len(out) >= 2
    /\ out[Len(out)].title # lastrow.title
    /\ out[Len(out)].pageid # lastrow.pageid
    /\ out[Len(out)].title = data[1].title

\* ------------------------------------------------------------------------
\* Further properties of the section walker
\* ------------------------------------------------------------------------
CtxSeq == <<h2, h3, h4, dt>>

\* the step takes the next element of the section; tag' is that element
ElementStep == epc \in {"tags", "yield"} /\ tag_n' = tag_n + 1

IsLevelTag(el) == el.name \in {"h3", "h4", "dt"}

\* the position of an h3, h4 or dt text in the heading context
Level(name) == IF name = "h3" THEN 2 ELSE IF name = "h4" THEN 3 ELSE 4

\* the step ends with the generator suspended at its yield
YieldStep == epc' = "yield"

\* C14 as stated: an h3, h4 or dt element yields no record and every one of
\* them changes the heading context, the next record carrying its text at
\* its level
C14_LevelTagAlwaysChangesContext ==
    [][/\ (ElementStep /\ IsLevelTag(tag')) =>
            /\ ~YieldStep
            /\ CtxSeq' # CtxSeq
            /\ CtxSeq'[Level(tag'.name)] = tag'.text
       /\ (YieldStep /\ tag # Unset /\ IsLevelTag(tag)) =>
            yielded'.sections[Level(tag.name)] = tag.text]_vars

\* C14 amended: an h3, h4 or dt element yields no record; one without a dd,
\* li, th or tr ancestor sets its level of the heading context to its text,
\* and a record yielded for the element enumerated directly after it in the
\* same section carries that text at its level; one with such an ancestor
\* leaves the heading context as it was
C14_LevelTagSetsItsLevel ==
    [][/\ (ElementStep /\ IsLevelTag(tag')) =>
            /\ ~YieldStep
            /\ yielded' = yielded
            /\ ~tag'.nested => CtxSeq'[Level(tag'.name)] = tag'.text
            /\ tag'.nested => CtxSeq' = CtxSeq
       /\ (YieldStep /\ tag # Unset /\ IsLevelTag(tag) /\ ~tag.nested) =>
            yielded'.sections[Level(tag.name)] = tag.text]_vars

C14_Witness ==
    /\ tag_n = 3
    /\ epc = "yield"
    /\ tag # Unset
    /\ tag.name = "p"
    /\ yielded # Unset
    /\ yielded.sections[2] # None
    /\ yielded.sections[3] = None
    /\ yielded.sections[4] # None
    /\ dt = yielded.sections[4]

\* C18: entering a section with an h2 sets h2 to its text and resets h3, h4
\* and dt, entering one without an h2 keeps h2; a processed h3 sets h3 and
\* resets h4 and dt, a processed h4 sets h4 and resets dt, a processed dt
\* sets only dt; whenever a level changes, every level below it is absent
\* afterwards
C18_HierarchicalReset ==
    [][/\ section_n' = section_n + 1 =>
            IF section_h2' # None
            THEN CtxSeq' = <<section_h2', None, None, None>>
            ELSE h2' = h2
       /\ (ElementStep /\ ~tag'.nested /\ tag'.name = "h3") =>
            CtxSeq' = <<h2, tag'.text, None, None>>
       /\ (ElementStep /\ ~tag'.nested /\ tag'.name = "h4") =>
            CtxSeq' = <<h2, h3, tag'.text, None>>
       /\ (ElementStep /\ ~tag'.nested /\ tag'.name = "dt") =>
            CtxSeq' = <<h2, h3, h4, tag'.text>>
       /\ h2' # h2 => (h3' = None /\ h4' = None /\ dt' = None)
       /\ h3' # h3 => (h4' = None /\ dt' = None)
       /\ h4' # h4 => dt' = None]_vars

C18_Witness ==
    /\ yielded # Unset
    /\ yielded.sections[3] # None
    /\ yielded.sections[4] # None
    /\ tag # Unset
    /\ tag.name = "h3"
    /\ ~tag.nested
    /\ CtxSeq = <<yielded.sections[1], tag.text, None, None>>

\* C19: an element below a dd, li, th or tr yields no record and leaves the
\* heading context unchanged; every other element that is not an h3, h4 or
\* dt yields exactly one record, made of the heading context current at
\* that point, its normalized text and its name, and records are yielded by
\* nothing else
C19_NestedSkip ==
    [][/\ (ElementStep /\ tag'.nested) =>
            /\ ~YieldStep
            /\ yielded' = yielded
            /\ CtxSeq' = CtxSeq
       /\ (ElementStep /\ ~tag'.nested /\ ~IsLevelTag(tag')) =>
            /\ YieldStep
            /\ yielded' = [sections |-> CtxSeq,
                           text |-> normalize_text(tag'.text),
                           name |-> tag'.name]
            /\ CtxSeq' = CtxSeq
       /\ (YieldStep \/ yielded' # yielded) =>
            (ElementStep /\ ~tag'.nested /\ ~IsLevelTag(tag'))]_vars

C19_Witness ==
    /\ tag_n = 3
    /\ epc = "tags"
    /\ tag # Unset
    /\ tag.name = "dt"
    /\ tag.nested
    /\ dt = None
    /\ h3 # None
    /\ yielded # Unset
    /\ yielded.sections = <<h2, None, None, None>>

\* ------------------------------------------------------------------------
\* Properties of the paragraph index
\* ------------------------------------------------------------------------
\* an item is kept: its h2 is not in the ignore set and the length of its
\* text is within the limits
Kept(it) ==
    /\ it.sections[1] \notin DEFAULT_SECTIONS_TO_IGNORE
    /\ Len(it.text) >= min_paragraph_length
    /\ Len(it.text) <= max_paragraph_length

\* the number of lines printed before the i-th one for the same page
PrintedBefore(f, i) == Cardinality({j \in 1..(i - 1) : f[j].pageid = f[i].pageid})

\* C16: a new line starts at index 0 and prints nothing; a kept item is
\* printed with the current index, which then advances by one; a dropped
\* item prints nothing and leaves the index; so the index of every printed
\* line is the number of lines printed before it for the same page, and the
\* pages come in the order of the input
C16_SequentialIndex ==
    [][/\ line_n' = line_n + 1 => (paragraph_index' = 0 /\ fo' = fo)
       /\ item_n' = item_n + 1 =>
            IF Kept(item')
            THEN /\ Len(fo') = Len(fo) + 1
                 /\ SubSeq(fo', 1, Len(fo)) = fo
                 /\ fo'[Len(fo')].paragraph_index = paragraph_index
                 /\ fo'[Len(fo')].pageid = input_item.pageid
                 /\ fo'[Len(fo')].text = item'.text
                 /\ paragraph_index' = paragraph_index + 1
            ELSE /\ fo' = fo
                 /\ paragraph_index' = paragraph_index
       /\ \A i \in 1..Len(fo') :
            /\ fo'[i].paragraph_index = PrintedBefore(fo', i)
            /\ i > 1 => fo'[i - 1].pageid <= fo'[i].pageid]_vars

C16_Witness ==
    /\ line_n = 2
    /\ item_n = 3
    /\ item # Unset
    /\ ~Kept(item)
    /\ paragraph_index = 1
    /\ Len(fo) = 3
    /\ fo[1].paragraph_index = 0
    /\ fo[2].paragraph_index = 1
    /\ fo[3].paragraph_index = 0
    /\ fo[2].pageid = 1
    /\ fo[3].pageid = 2

====
